---- MODULE Spec2Model ----
(***************************************************************************)
(* The video OCR pipeline of OCR_compare: one job is extract_frames        *)
(* followed by process_frames_paddle or process_frames_easyocr.            *)
(*                                                                         *)
(* Two variants of the pipeline are in the repository and both are         *)
(* modelled; `variant` says which one runs:                                *)
(*   "process"  src/process.py  (library functions, frames directory       *)
(*              output_dir / 'frames', result file given by the caller)    *)
(*   "main"     src/main.py     (script, frames directory 'frames',        *)
(*              result file 'result.txt', top-level handlers)              *)
(*                                                                         *)
(* Python facts the model rests on: sys.exit raises SystemExit and         *)
(* KeyboardInterrupt is raised on an operator interrupt; both derive from  *)
(* BaseException, so no `except Exception` clause catches them.            *)
(*                                                                         *)
(* Texts are sequences of codepoints, confidences are hundredths           *)
(* (0.8 is 80). shutil.rmtree is one step. Frame files are named by their  *)
(* number (ffmpeg's image2 numbering starts at 1).                         *)
(***************************************************************************)
EXTENDS Integers, Sequences, FiniteSets, TLC

\* ------------------------------------------------------------------ bounds
MaxFrames == 2          \* frames a video yields, at most
MaxDet    == 2          \* detections the backend returns for one frame, at most

\* ------------------------------------------------------- program constants
Threshold == 80         \* `confidence > 0.8`, in hundredths

\* ------------------------------------------------------------ value spaces
JobIds   == {1, 2}
Variants == {"process", "main"}
Engines  == {"paddle", "easyocr"}

\* "T", "t" and "Tt": the same word in two cases, and a word it is a prefix of
Texts == { <<84>>, <<116>>, <<84, 116>> }
\* at the threshold and just above it
Confidences == { Threshold, Threshold + 1 }
\* PaddleOCR may hand back a line that is None or too short
NoLine == [text |-> <<>>, conf |-> -1]

\* owner 0: a frame that was in the directory before any job of this run
Stale == 0
StaleFrame == [name |-> MaxFrames, owner |-> Stale]

Absent == [exists |-> FALSE, lines |-> <<>>]
\* the complete result file of an earlier successful run
PriorFile == [exists |-> TRUE, lines |-> << <<84>>, <<116>> >>]

VARIABLES
    variant,        \* which file's pipeline runs
    engine,         \* --ocr
    debug,          \* the global debug flag
    jobs,           \* the jobs of this run
    video,          \* video[j]: -1 the file does not exist, else its frame count
    vocabulary,     \* the texts that show in the videos of this run
    dirExists,      \* the frames directory exists
    dirFiles,       \* its *.jpg files: records [name, owner]
    resultFile,     \* resultFile[p]: the file at result path p
    priorResult,    \* history: resultFile as it was before the run
    pc,             \* pc[j]: where job j is
    extracted,      \* extracted[j]: frames ffmpeg has written so far
    frame_files,    \* frame_files[j]: the list get_frame_files returned
    i,              \* i[j]: frames of frame_files[j] handed to the backend
    unique_words,   \* unique_words[j]
    wpos,           \* wpos[j]: lines j has written through its open file
    seen,           \* history: every detection the backend returned to j
    status,         \* "running", "ok", "exit1", "uncaught", "interrupted"
    failure,        \* the first error job j reported, "none" if none
    touched         \* history: owners of the frames j deleted, read, overwrote

vars == << variant, engine, debug, jobs, video, vocabulary, dirExists, dirFiles, resultFile,
           priorResult, pc, extracted, frame_files, i, unique_words, wpos,
           seen, status, failure, touched >>

\* what no step changes, and the file offset only the write loop changes
config == << variant, engine, debug, jobs, video, vocabulary, priorResult >>

\* --------------------------------------------------------------- helpers
\* str < str in Python: lexicographic by codepoint
StrLess(a, b) ==
    \E k \in 1..(Len(a) + 1) :
        /\ \A m \in 1..(k - 1) : m <= Len(b) /\ a[m] = b[m]
        /\ \/ k = Len(a) + 1 /\ Len(b) >= k
           \/ k <= Len(a) /\ k <= Len(b) /\ a[k] < b[k]

\* sorted(unique_words, reverse=True): the order turned round
RECURSIVE SortedDesc(_)
SortedDesc(S) ==
    IF S = {} THEN <<>>
    ELSE LET m == CHOOSE x \in S : \A y \in S \ {x} : StrLess(y, x)
         IN  <<m>> \o SortedDesc(S \ {m})

\* sorted(unique_words)
RECURSIVE Sorted(_)
Sorted(S) ==
    IF S = {} THEN <<>>
    ELSE LET m == CHOOSE x \in S : \A y \in S \ {x} : StrLess(x, y)
         IN  <<m>> \o Sorted(S \ {m})

\* sorted(frames_dir.glob('*.jpg'), key=lambda x: int(x.stem))
RECURSIVE SortedNames(_)
SortedNames(N) ==
    IF N = {} THEN <<>>
    ELSE LET m == CHOOSE x \in N : \A y \in N : x <= y
         IN  <<m>> \o SortedNames(N \ {m})

Range(s) == { s[n] : n \in 1..Len(s) }

SeqsUpTo(S, n) == UNION { [1..m -> S] : m \in 0..n }

\* the filter with `>=` in place of `>`
AdmittedAtThreshold(result) ==
    { d.text : d \in { x \in Range(result) : x # NoLine /\ x.conf >= Threshold } }

\* the texts one backend result adds to unique_words:
\* `if confidence > 0.8: unique_words.add(text)`
Admitted(result) ==
    { d.text : d \in { x \in Range(result) : x # NoLine /\ x.conf > Threshold } }

\* what the backend may return for one frame
Detections == [text : vocabulary, conf : Confidences]
Lines == IF engine = "paddle" THEN Detections \cup {NoLine} ELSE Detections
Results == SeqsUpTo(Lines, MaxDet)

\* main.py writes 'result.txt'; process.py writes the caller's output_file
ResultPath(j) == IF variant = "main" THEN 0 ELSE j

InFlight == { "start", "ex_rmtree", "ex_mkdir", "ffmpeg", "extracted", "clear",
              "list", "ocr", "write", "rm_ok", "handler", "handler_unbound" }

\* ------------------------------------------------------------------ Init
InitJobs(J, videos, words, dirs, priors) ==
    /\ variant \in Variants
    /\ engine \in Engines
    /\ debug \in BOOLEAN
    /\ jobs = J
    /\ video \in [J -> videos]
    /\ vocabulary = words
    /\ \E d \in dirs : dirExists = d.exists /\ dirFiles = d.files
    /\ \E f \in priors :
          /\ resultFile = [p \in { ResultPath(j) : j \in J } |-> f]
          /\ priorResult = resultFile
    /\ pc = [j \in J |-> "start"]
    /\ extracted = [j \in J |-> 0]
    /\ frame_files = [j \in J |-> <<>>]
    /\ i = [j \in J |-> 0]
    /\ unique_words = [j \in J |-> {}]
    /\ wpos = [j \in J |-> 0]
    /\ seen = [j \in J |-> {}]
    /\ status = [j \in J |-> "running"]
    /\ failure = [j \in J |-> "none"]
    /\ touched = [j \in J |-> {}]

NoDir    == [exists |-> FALSE, files |-> {}]
EmptyDir == [exists |-> TRUE, files |-> {}]
StaleDir == [exists |-> TRUE, files |-> {StaleFrame}]

\* one job; the frames directory may be left over from an earlier run
Init == InitJobs({1}, -1..MaxFrames, Texts, {NoDir, EmptyDir, StaleDir}, {Absent, PriorFile})

\* two jobs with the same output directory
InitConc == InitJobs(JobIds, 1..MaxFrames, {<<84>>}, {NoDir}, {Absent})

\* ------------------------------------------------------- control transfer
Goto(j, p) == pc' = [pc EXCEPT ![j] = p]

\* the job ends: the first error reported stays the reported one
Terminate(j, st, why) ==
    /\ pc' = [pc EXCEPT ![j] = "done"]
    /\ status' = [status EXCEPT ![j] = st]
    /\ failure' = [failure EXCEPT ![j] = IF @ = "none" THEN why ELSE @]

\* sys.exit(1): SystemExit passes every `except Exception`, and main.py's
\* top level catches only KeyboardInterrupt and Exception
SysExit(j, why) == Terminate(j, "exit1", why)

\* an exception caught by the `except Exception` of process_frames_*
Caught(j, why) ==
    /\ Goto(j, "handler")
    /\ failure' = [failure EXCEPT ![j] = IF @ = "none" THEN why ELSE @]
    /\ UNCHANGED status

\* an exception that leaves the function: main.py's top level catches it,
\* process.py hands it to its caller
Uncaught(j, why) ==
    IF variant = "main"
    THEN /\ Goto(j, "top_exc")
         /\ failure' = [failure EXCEPT ![j] = IF @ = "none" THEN why ELSE @]
         /\ UNCHANGED status
    ELSE Terminate(j, "uncaught", why)

\* shutil.rmtree(frames_dir) on an existing directory
Rmtree(j) ==
    /\ dirExists' = FALSE
    /\ dirFiles' = {}
    /\ touched' = [touched EXCEPT ![j] = @ \cup { f.owner : f \in dirFiles }]

\* ------------------------------------------------------- extract_frames
\* `if not video_path.exists(): sys.exit(1)`, then `frames_dir.exists()`
extract_frames_check(j) ==
    /\ pc[j] = "start"
    /\ IF video[j] = -1
       THEN SysExit(j, "video_missing")
       ELSE /\ Goto(j, IF variant = "process" /\ dirExists
                       THEN "ex_rmtree" ELSE "ex_mkdir")
            /\ UNCHANGED << status, failure >>
    /\ UNCHANGED << config, dirExists, dirFiles, resultFile, extracted,
                    frame_files, i, unique_words, wpos, seen, touched >>

\* process.py only: `shutil.rmtree(frames_dir)`, outside the try
extract_frames_rmtree(j) ==
    /\ pc[j] = "ex_rmtree"
    /\ IF dirExists
       THEN /\ Rmtree(j)
            /\ Goto(j, "ex_mkdir")
            /\ UNCHANGED << status, failure >>
       ELSE /\ Uncaught(j, "cleanup_error")
            /\ UNCHANGED << dirExists, dirFiles, touched >>
    /\ UNCHANGED << config, resultFile, extracted, frame_files, i,
                    unique_words, wpos, seen >>

\* `frames_dir.mkdir(exist_ok=True)`: an existing directory keeps its files
extract_frames_mkdir(j) ==
    /\ pc[j] = "ex_mkdir"
    /\ dirExists' = TRUE
    /\ Goto(j, "ffmpeg")
    /\ UNCHANGED << config, dirFiles, resultFile, extracted, frame_files, i,
                    unique_words, wpos, seen, status, failure, touched >>

\* ffmpeg writes the next frame, replacing a file of the same name
extract_frames_write(j) ==
    /\ pc[j] = "ffmpeg"
    /\ dirExists
    /\ extracted[j] < video[j]
    /\ LET n == extracted[j] + 1
           old == { f \in dirFiles : f.name = n }
       IN  /\ dirFiles' = (dirFiles \ old) \cup {[name |-> n, owner |-> j]}
           /\ touched' = [touched EXCEPT ![j] = @ \cup { f.owner : f \in old }]
           /\ extracted' = [extracted EXCEPT ![j] = n]
    /\ UNCHANGED << config, dirExists, resultFile, pc, frame_files, i,
                    unique_words, wpos, seen, status, failure >>

\* ffmpeg.probe or ffmpeg.run raises: `except Exception: sys.exit(1)`
extract_frames_error(j) ==
    /\ pc[j] = "ffmpeg"
    /\ SysExit(j, "extract_error")
    /\ UNCHANGED << config, dirExists, dirFiles, resultFile, extracted,
                    frame_files, i, unique_words, wpos, seen, touched >>

\* ffmpeg.run returns, and so does extract_frames
extract_frames_return(j) ==
    /\ pc[j] = "ffmpeg"
    /\ extracted[j] = video[j]
    /\ Goto(j, "extracted")
    /\ UNCHANGED << config, dirExists, dirFiles, resultFile, extracted,
                    frame_files, i, unique_words, wpos, seen, status, failure, touched >>

\* --------------------------------------------------- the OCR backend object
\* main.py builds PaddleOCR(...) in the top-level try; both files build
\* easyocr.Reader(...) first thing inside the try of process_frames_easyocr;
\* process_frames_paddle of process.py is handed its backend by the caller
backend_init(j) ==
    /\ pc[j] = "extracted"
    /\ \/ /\ Goto(j, IF variant = "main" THEN "clear" ELSE "list")
          /\ UNCHANGED << status, failure >>
       \/ /\ variant = "main" /\ engine = "paddle"
          /\ Uncaught(j, "backend_error")
       \/ /\ variant = "main" /\ engine = "easyocr"
          \* main.py binds frames_dir only after the Reader is built
          /\ Goto(j, "handler_unbound")
          /\ failure' = [failure EXCEPT ![j] = "backend_error"]
          /\ UNCHANGED status
       \/ /\ variant = "process" /\ engine = "easyocr"
          /\ Caught(j, "backend_error")
    /\ UNCHANGED << config, dirExists, dirFiles, resultFile, extracted,
                    frame_files, i, unique_words, wpos, seen, touched >>

\* main.py only: "Clear the results file at the start"
clear_results(j) ==
    /\ pc[j] = "clear"
    /\ \/ /\ resultFile' = [resultFile EXCEPT ![ResultPath(j)] =
                               [exists |-> TRUE, lines |-> <<>>]]
          /\ Goto(j, "list")
          /\ UNCHANGED << status, failure >>
       \/ /\ Caught(j, "write_error")
          /\ UNCHANGED resultFile
    /\ UNCHANGED << config, dirExists, dirFiles, extracted, frame_files, i,
                    unique_words, wpos, seen, touched >>

\* get_frame_files without its `if not frame_files` exit
get_frame_files_empty_ok(j) ==
    /\ pc[j] = "list"
    /\ IF ~dirExists
       THEN /\ SysExit(j, "no_dir")
            /\ UNCHANGED << frame_files, touched >>
       ELSE /\ frame_files' = [frame_files EXCEPT ![j] =
                                  SortedNames({ f.name : f \in dirFiles })]
            /\ touched' = [touched EXCEPT ![j] = @ \cup { f.owner : f \in dirFiles }]
            /\ Goto(j, "ocr")
            /\ UNCHANGED << status, failure >>
    /\ UNCHANGED << config, dirExists, dirFiles, resultFile, extracted, i,
                    unique_words, wpos, seen >>

\* get_frame_files: a missing directory and an empty listing both sys.exit(1)
get_frame_files(j) ==
    /\ pc[j] = "list"
    /\ IF ~dirExists
       THEN /\ SysExit(j, "no_dir")
            /\ UNCHANGED << frame_files, touched >>
       ELSE IF dirFiles = {}
       THEN /\ SysExit(j, "no_frames")
            /\ UNCHANGED << frame_files, touched >>
       ELSE /\ frame_files' = [frame_files EXCEPT ![j] =
                                  SortedNames({ f.name : f \in dirFiles })]
            /\ touched' = [touched EXCEPT ![j] = @ \cup { f.owner : f \in dirFiles }]
            /\ Goto(j, "ocr")
            /\ UNCHANGED << status, failure >>
    /\ UNCHANGED << config, dirExists, dirFiles, resultFile, extracted, i,
                    unique_words, wpos, seen >>

\* one turn of `for frame_path in frame_files`: the backend is called on the
\* frame and its result is filtered into unique_words
ocr_frame(j) ==
    /\ pc[j] = "ocr"
    /\ i[j] < Len(frame_files[j])
    /\ LET name == frame_files[j][i[j] + 1]
           file == { f \in dirFiles : f.name = name }
       IN
       /\ i' = [i EXCEPT ![j] = @ + 1]
       /\ touched' = [touched EXCEPT ![j] = @ \cup { f.owner : f \in file }]
       /\ \/ \* the call raises
             /\ Caught(j, "recognition_error")
             /\ UNCHANGED << unique_words, seen >>
          \/ \* PaddleOCR returns None: `if result is not None` skips the frame
             /\ engine = "paddle"
             /\ UNCHANGED << pc, status, failure, unique_words, seen >>
          \/ \* PaddleOCR returns [None]: `for line in result[0]` raises TypeError
             /\ engine = "paddle"
             /\ file # {}
             /\ Caught(j, "bad_result")
             /\ UNCHANGED << unique_words, seen >>
          \/ \* detections; a frame file that is gone yields none
             /\ file # {}
             /\ \E result \in Results :
                   /\ unique_words' = [unique_words EXCEPT ![j] = @ \cup Admitted(result)]
                   /\ seen' = [seen EXCEPT ![j] = @ \cup (Range(result) \ {NoLine})]
             /\ UNCHANGED << pc, status, failure >>
    /\ UNCHANGED << config, dirExists, dirFiles, resultFile, extracted, frame_files,
                    wpos >>

\* the loop is over: `open(output_file, 'w')` truncates, or raises
open_result(j) ==
    /\ pc[j] = "ocr"
    /\ i[j] = Len(frame_files[j])
    /\ \/ /\ resultFile' = [resultFile EXCEPT ![ResultPath(j)] =
                               [exists |-> TRUE, lines |-> <<>>]]
          /\ wpos' = [wpos EXCEPT ![j] = 0]
          /\ Goto(j, "write")
          /\ UNCHANGED << status, failure >>
       \/ /\ Caught(j, "write_error")
          /\ UNCHANGED << resultFile, wpos >>
    /\ UNCHANGED << config, dirExists, dirFiles, extracted, frame_files, i,
                    unique_words, seen, touched >>

\* a write of `line` at line offset `pos` of a file holding `lines`
Put(lines, pos, line) ==
    [n \in 1..(IF Len(lines) > pos + 1 THEN Len(lines) ELSE pos + 1) |->
        IF n = pos + 1 THEN line ELSE IF n <= Len(lines) THEN lines[n] ELSE <<>>]

\* `for word in sorted(unique_words): f.write(f"{word}\n")`
write_line(j) ==
    /\ pc[j] = "write"
    /\ LET p == ResultPath(j)
           out == Sorted(unique_words[j])
       IN  /\ wpos[j] < Len(out)
           /\ resultFile' = [resultFile EXCEPT ![p] =
                 [exists |-> TRUE, lines |-> Put(@.lines, wpos[j], out[wpos[j] + 1])]]
           /\ wpos' = [wpos EXCEPT ![j] = @ + 1]
    /\ UNCHANGED << config, dirExists, dirFiles, pc, extracted, frame_files, i,
                    unique_words, seen, status, failure, touched >>

\* a write, the flush or the close raises: what was written stays
write_error(j) ==
    /\ pc[j] = "write"
    /\ Caught(j, "write_error")
    /\ UNCHANGED << config, dirExists, dirFiles, resultFile, extracted,
                    frame_files, i, unique_words, wpos, seen, touched >>

\* the `with` block ends with every line written
write_close(j) ==
    /\ pc[j] = "write"
    /\ wpos[j] = Cardinality(unique_words[j])
    /\ Goto(j, "rm_ok")
    /\ UNCHANGED << config, dirExists, dirFiles, resultFile, extracted,
                    frame_files, i, unique_words, wpos, seen, status, failure, touched >>

\* the success path without its rmtree
cleanup_success_keep(j) ==
    /\ pc[j] = "rm_ok"
    /\ Terminate(j, "ok", "none")
    /\ UNCHANGED << config, dirExists, dirFiles, touched, resultFile, extracted,
                    frame_files, i, unique_words, wpos, seen >>

\* after the write: `if not debug: shutil.rmtree(frames_dir)`, and the job is
\* done; a missing directory makes rmtree raise inside the try
cleanup_success(j) ==
    /\ pc[j] = "rm_ok"
    /\ IF debug
       THEN /\ Terminate(j, "ok", "none")
            /\ UNCHANGED << dirExists, dirFiles, touched >>
       ELSE IF dirExists
       THEN /\ Rmtree(j)
            /\ Terminate(j, "ok", "none")
       ELSE /\ Caught(j, "cleanup_error")
            /\ UNCHANGED << dirExists, dirFiles, touched >>
    /\ UNCHANGED << config, resultFile, extracted, frame_files, i,
                    unique_words, wpos, seen >>

\* `except Exception` of process_frames_*:
\* `if not debug: shutil.rmtree(frames_dir)`, then sys.exit(1)
handler(j) ==
    /\ pc[j] = "handler"
    /\ IF debug
       THEN /\ SysExit(j, "none")
            /\ UNCHANGED << dirExists, dirFiles, touched >>
       ELSE IF dirExists
       THEN /\ Rmtree(j)
            /\ SysExit(j, "none")
       ELSE /\ Uncaught(j, "cleanup_error")
            /\ UNCHANGED << dirExists, dirFiles, touched >>
    /\ UNCHANGED << config, resultFile, extracted, frame_files, i,
                    unique_words, wpos, seen >>

\* the same handler in main.py's process_frames_easyocr when the Reader
\* failed: frames_dir is not bound yet, so rmtree(frames_dir) raises
\* UnboundLocalError
handler_unbound(j) ==
    /\ pc[j] = "handler_unbound"
    /\ IF debug THEN SysExit(j, "none") ELSE Uncaught(j, "none")
    /\ UNCHANGED << config, dirExists, dirFiles, touched, resultFile, extracted,
                    frame_files, i, unique_words, wpos, seen >>

\* main.py `except Exception` at the top level:
\* `if not debug: shutil.rmtree('frames', ignore_errors=True)`, sys.exit(1)
top_level_exception(j) ==
    /\ pc[j] = "top_exc"
    /\ IF ~debug /\ dirExists
       THEN Rmtree(j)
       ELSE UNCHANGED << dirExists, dirFiles, touched >>
    /\ SysExit(j, "none")
    /\ UNCHANGED << config, resultFile, extracted, frame_files, i,
                    unique_words, wpos, seen >>

\* the KeyboardInterrupt handler without its rmtree
top_level_interrupt_exit_only(j) ==
    /\ pc[j] = "top_ki"
    /\ SysExit(j, "none")
    /\ UNCHANGED << config, dirExists, dirFiles, touched, resultFile, extracted,
                    frame_files, i, unique_words, wpos, seen >>

\* main.py `except KeyboardInterrupt` at the top level: the same cleanup
top_level_interrupt(j) ==
    /\ pc[j] = "top_ki"
    /\ IF ~debug /\ dirExists
       THEN Rmtree(j)
       ELSE UNCHANGED << dirExists, dirFiles, touched >>
    /\ SysExit(j, "none")
    /\ UNCHANGED << config, resultFile, extracted, frame_files, i,
                    unique_words, wpos, seen >>

\* the operator interrupts a job during extraction or aggregation:
\* KeyboardInterrupt passes every `except Exception`; main.py's top level
\* catches it, process.py's functions let it through to their caller
interrupt(j) ==
    /\ pc[j] \in InFlight
    /\ failure' = [failure EXCEPT ![j] = "interrupted"]
    /\ IF variant = "main"
       THEN /\ Goto(j, "top_ki")
            /\ UNCHANGED status
       ELSE /\ Goto(j, "done")
            /\ status' = [status EXCEPT ![j] = "interrupted"]
    /\ UNCHANGED << config, dirExists, dirFiles, touched, resultFile, extracted,
                    frame_files, i, unique_words, wpos, seen >>

\* ------------------------------------------------------------------ Next
Next ==
    \/ \E j \in jobs : extract_frames_check(j)
    \/ \E j \in jobs : extract_frames_rmtree(j)
    \/ \E j \in jobs : extract_frames_mkdir(j)
    \/ \E j \in jobs : extract_frames_write(j)
    \/ \E j \in jobs : extract_frames_error(j)
    \/ \E j \in jobs : extract_frames_return(j)
    \/ \E j \in jobs : backend_init(j)
    \/ \E j \in jobs : clear_results(j)
    \/ \E j \in jobs : get_frame_files(j)
    \/ \E j \in jobs : ocr_frame(j)
    \/ \E j \in jobs : open_result(j)
    \/ \E j \in jobs : write_line(j)
    \/ \E j \in jobs : write_error(j)
    \/ \E j \in jobs : write_close(j)
    \/ \E j \in jobs : cleanup_success(j)
    \/ \E j \in jobs : handler(j)
    \/ \E j \in jobs : handler_unbound(j)
    \/ \E j \in jobs : top_level_exception(j)
    \/ \E j \in jobs : top_level_interrupt(j)
    \/ \E j \in jobs : interrupt(j)

Spec == Init /\ [][Next]_vars

SpecConc == InitConc /\ [][Next]_vars

\* ================================================================ claims
Done(j) == pc[j] = "done"

result_file(j) == resultFile[ResultPath(j)]

\* the texts of the detections the backend returned above the threshold
AboveThreshold(j) == { d.text : d \in { x \in seen[j] : x.conf > Threshold } }

\* the result file holds every word of unique_words once and nothing else
FileComplete(j) ==
    /\ result_file(j).exists
    /\ Range(result_file(j).lines) = unique_words[j]
    /\ Len(result_file(j).lines) = Cardinality(unique_words[j])

\* C1 (as claimed): a job that failed at any stage (extraction error, no
\* frames found, OCR exception, result-file write error) has no frames
\* directory left when debug is off and has it left when debug is on.
C1_FailedJobCleanup ==
    \A j \in jobs :
        ( /\ Done(j)
          /\ status[j] = "exit1"
          /\ failure[j] \in { "extract_error", "no_frames", "recognition_error",
                              "write_error" } )
        => (dirExists <=> debug)

\* C2: when the result is written, a text is in it if and only if some
\* detection of that text had confidence strictly above the threshold; a
\* detection exactly at the threshold admits nothing.
C2_StrictThreshold ==
    \A j \in jobs :
        status[j] = "ok" =>
            \A t \in Texts :
                (t \in Range(result_file(j).lines))
                    <=> (\E d \in seen[j] : d.text = t /\ d.conf > Threshold)

C2_Witness ==
    \E j \in jobs :
        /\ status[j] = "ok"
        /\ \E d \in seen[j], e \in seen[j] :
              /\ d.conf = Threshold /\ d.text \notin Range(result_file(j).lines)
              /\ e.conf > Threshold /\ e.text \in Range(result_file(j).lines)

\* C3 (as claimed): when an OCR call raised on a frame, every frame of the
\* frame set was still passed to the backend and the result file was written
\* with the texts above the threshold.
C3_FailedFrameSkipped ==
    \A j \in jobs :
        (Done(j) /\ failure[j] = "recognition_error") =>
            /\ i[j] = Len(frame_files[j])
            /\ status[j] = "ok"
            /\ result_file(j).exists
            /\ Range(result_file(j).lines) = AboveThreshold(j)

\* C4 (as claimed): after a failed aggregation (an exception in the OCR loop
\* or in the write of the result file) the result file is absent or is the
\* complete file of an earlier successful run.
C4_NoTornResult ==
    \A j \in jobs :
        ( /\ Done(j)
          /\ status[j] = "exit1"
          /\ failure[j] \in { "recognition_error", "write_error" } )
        => \/ ~result_file(j).exists
           \/ result_file(j) = priorResult[ResultPath(j)]

C6_OnlyOwnFrames ==
    \A j \in jobs :
        pc[j] = "extracted" => \A f \in dirFiles : f.owner = j

\* C7 (as claimed): of two jobs running in the same output directory, neither
\* ever deletes, reads or overwrites a frame of the other.
C7_ExclusiveWorkDir ==
    \A j \in jobs : touched[j] \subseteq {j, Stale}

\* C8: a job that succeeded has deleted the frames directory if debug is off
\* and kept it if debug is on, its result file holds the full result set, and
\* the step that deletes the directory on success is taken with the result
\* file completely written.
C8_State ==
    \A j \in jobs :
        status[j] = "ok" => /\ dirExists <=> debug
                            /\ FileComplete(j)
                            /\ Range(result_file(j).lines) = AboveThreshold(j)

C8_Order ==
    \A j \in jobs :
        (dirExists /\ ~dirExists' /\ status'[j] = "ok") => FileComplete(j)

C8_SuccessCleanup == []C8_State /\ [][C8_Order]_vars

C8_Witness ==
    \E j \in jobs :
        /\ status[j] = "ok" /\ ~debug /\ ~dirExists
        /\ Len(result_file(j).lines) >= 2

\* C9: a written result file has no text on two lines and its lines are in
\* ascending codepoint order; "T" and "t" are two lines.
C9_SortedUnique ==
    \A j \in jobs :
        status[j] = "ok" =>
            LET lines == result_file(j).lines
            IN  \A a \in 1..Len(lines), b \in 1..Len(lines) :
                    a < b => /\ lines[a] # lines[b]
                             /\ StrLess(lines[a], lines[b])

C9_Witness ==
    \E j \in jobs :
        /\ status[j] = "ok"
        /\ i[j] = 2
        /\ result_file(j).lines = << <<84>>, <<84, 116>>, <<116>> >>

====
